---------------------------- MODULE Spec2Model ----------------------------
(***************************************************************************)
(* A model of the task-orchestration core of Clarity:                      *)
(*   - MasterAgent.create_task_plan          (the Task Planner)            *)
(*   - WorkingAgent.execute_plan and helpers (the Execution Engine)        *)
(*   - StateCheckerAgent                     (the State Monitor)           *)
(*   - FinancialAgentOrchestrator.run        (the Orchestrator)            *)
(*   - detect_market_type                    (the market-data layer)       *)
(*   - DataFetcherManager.get_daily_data     (the market-data layer)       *)
(*                                                                         *)
(* Specifications.                                                         *)
(*   Spec          runs of the orchestrator, one after another             *)
(*   SpecLive      Spec with the fairness of the event loop                *)
(*   SpecRuns      Spec with the history of what a run() call found        *)
(*   SpecMissing   Spec with any one of the six collaborators not loaded   *)
(*   SpecConc      two run() calls in flight on one orchestrator           *)
(*   SpecTwin      two orchestrators fed the same outcomes, raised or      *)
(*                 returned                                                *)
(*   SpecMonitor   check_step called directly, up to three calls           *)
(*   SpecCheckStep check_step called once, from any counters               *)
(*   SpecMarket    detect_market_type on a set of codes                    *)
(*   SpecFetch     get_daily_data of a manager built from a fetcher list   *)
(*                                                                         *)
(* Modelling conventions.                                                  *)
(*   * An error message is a sequence of words.  str.lower() is LowerMsg,  *)
(*     "kw in error_msg" is Contains (a contiguous run of words), and      *)
(*     ", ".join(errors) is JoinErrors.                                    *)
(*   * A stock code is a sequence of one-character strings.                *)
(*   * datetime.now() is abstracted to the ordinal of the attempt of the   *)
(*     step during which it was read (0 stands for None).                  *)
(*   * The planning/logging sink (PlanningManager) is write-only and is    *)
(*     taken never to raise; none of its calls is modelled.                *)
(*   * asyncio runs one coroutine at a time: an action is the code between *)
(*     two suspension points (or a finer cut of it).                       *)
(***************************************************************************)
EXTENDS Integers, Sequences, FiniteSets, TLC

VARIABLES
    max_retry_count,       \* config.max_retry_count (AgentConfig)
    subagents,             \* MasterAgent.subagents: names that were loaded
    pc,                    \* where run()/execute_plan() stands
    plan,                  \* the TaskPlan of the current run
    steps,                 \* ExecutionState.steps
    current_step,          \* ExecutionState.current_step
    it,                    \* position of "for step in state.steps" (1-based)
    in_retry,              \* the awaited attempt runs inside _retry_step
    has_error,             \* ExecutionState.has_error
    is_complete,           \* ExecutionState.is_complete
    total_failures,        \* StateCheckerAgent.total_failures
    consecutive_failures,  \* StateCheckerAgent.consecutive_failures
    check_result,          \* the last StateCheckResult of check_step
    final_check,           \* the StateCheckResult of validate_final_state
    ret,                   \* what run() returned
    calls,                 \* history: agent.execute invocations per step
    replanned,             \* history: the loop was left through "break"
    code,                  \* detect_market_type: the argument
    market,                \* detect_market_type: the value returned
    fetchers,              \* DataFetcherManager._fetchers
    suitable_fetchers,     \* get_daily_data: the candidates
    fi,                    \* get_daily_data: position of "for fetcher in" (1-based)
    fetch_errors,          \* get_daily_data: the list "errors"
    fetch_pc,              \* where get_daily_data stands
    fetched,               \* what get_daily_data returned or raised
    attempts,              \* history: the fetchers called and what they did
    trace,                 \* history: the check_step calls since the last reset
    stale_failures,        \* history: the last run() call found two or more
                           \* consecutive failures left in the Monitor
    conc                   \* concurrent runs: the local state of each run()

vars == << max_retry_count, subagents, pc, plan, steps, current_step, it,
           in_retry, has_error, is_complete, total_failures,
           consecutive_failures, check_result, final_check, ret, calls,
           replanned, code, market, fetchers, suitable_fetchers, fi, fetch_errors,
           fetch_pc, fetched, attempts, trace, stale_failures, conc >>

engineVars == << max_retry_count, subagents, pc, plan, steps, current_step, it,
                 in_retry, has_error, is_complete, total_failures,
                 consecutive_failures, check_result, final_check, ret, calls,
                 replanned >>

marketVars == << code, market >>

fetchVars == << fetchers, suitable_fetchers, fi, fetch_errors, fetch_pc, fetched,
               attempts >>

\* everything that belongs to the market-data layer
dataVars == << marketVars, fetchVars >>

\* what the actions of the engine leave alone
notEngineVars == << dataVars, trace, stale_failures, conc >>

\* what the actions of the market-data layer leave alone
notDataVars == << engineVars, trace, stale_failures, conc >>

\* what the actions of concurrent runs leave alone: all but the Monitor's
\* counters and conc
notConcVars == << max_retry_count, subagents, pc, plan, steps, current_step, it,
                 in_retry, has_error, is_complete, check_result, final_check,
                 ret, calls, replanned, dataVars, trace, stale_failures >>

(***************************************************************************)
(* Bounds of the model.                                                    *)
(***************************************************************************)
\* config.max_retry_count ranges over 0..MaxRetryCfg
MaxRetryCfg == 2

\* at most this many of the Unloadable collaborators failed to load
MaxMissing == 1

\* a stock code is a run of at most MaxDigits equal digits followed by at
\* most MaxTail arbitrary characters
MaxDigits == 6

MaxTail == 3

\* check_step called directly: max_retries and the retry_count of a step range
\* over 0..MonMaxRetries
MonMaxRetries == 3

\* check_step called directly: the failures in a row before the recorded calls
MaxPriorFailures == 1


(***************************************************************************)
(* Task Planner: MasterAgent.create_task_plan                              *)
(***************************************************************************)
\* the values of the TaskType enum that run() documents
TaskTypeValues == {"stock_analysis", "holdings_tracking", "stock_screening"}

\* a TaskType member that is none of the three (the planner's else branch)
OtherTaskType == "other"

SUBAGENT_MAP ==
    {"fundamentals_analyst", "sentiment_analyst", "news_analyst",
     "technical_analyst", "holdings_hunter", "alpha_hound"}

\* the collaborators whose constructor may raise in _load_subagents
Unloadable == {"news_analyst", "technical_analyst"}

\* a Python dict with insertion order: its keys in order, and its values
Dict(keys, vals) == [keys |-> keys, vals |-> vals]

DictGet(d, k, default) ==
    IF \E i \in DOMAIN d.keys : d.keys[i] = k
    THEN d.vals[CHOOSE i \in DOMAIN d.keys : d.keys[i] = k]
    ELSE default

StockAnalysisOrder ==
    << "technical_analyst", "fundamentals_analyst", "news_analyst",
       "sentiment_analyst" >>

HoldingsTrackingOrder == << "holdings_hunter", "news_analyst" >>

StockScreeningOrder ==
    << "alpha_hound", "technical_analyst", "fundamentals_analyst" >>

create_task_plan(task_type) ==
    IF task_type = "stock_analysis" THEN
        [ task_type |-> task_type,
          subagent_assignments |-> Dict(
            << "technical_analyst", "fundamentals_analyst", "news_analyst",
               "sentiment_analyst" >>,
            << << "Analyze technical indicators and price trends" >>,
               << "Analyze financial statements and fundamental metrics" >>,
               << "Gather and analyze relevant news" >>,
               << "Analyze social media sentiment" >> >>),
          priority_order |-> StockAnalysisOrder ]
    ELSE IF task_type = "holdings_tracking" THEN
        [ task_type |-> task_type,
          subagent_assignments |-> Dict(
            << "holdings_hunter", "news_analyst" >>,
            << << "Track and analyze investor holdings" >>,
               << "Find related news about the investor" >> >>),
          priority_order |-> HoldingsTrackingOrder ]
    ELSE IF task_type = "stock_screening" THEN
        [ task_type |-> task_type,
          subagent_assignments |-> Dict(
            << "alpha_hound", "technical_analyst", "fundamentals_analyst" >>,
            << << "Screen stocks based on criteria" >>,
               << "Analyze technicals of top picks" >>,
               << "Analyze fundamentals of top picks" >> >>),
          priority_order |-> StockScreeningOrder ]
    ELSE
        [ task_type |-> task_type,
          subagent_assignments |-> Dict(<< >>, << >>),
          priority_order |-> << >> ]

NoPlan == [ task_type |-> "none",
            subagent_assignments |-> Dict(<< >>, << >>),
            priority_order |-> << >> ]

(***************************************************************************)
(* Execution Engine, data: ExecutionStep and prepare_execution             *)
(***************************************************************************)
NoResult == [present |-> FALSE, success |-> FALSE, errors |-> << >>]

AgentResult(success, errors) ==
    [present |-> TRUE, success |-> success, errors |-> errors]

ExecutionStep(step_id, agent_name, task) ==
    [ step_id |-> step_id,
      agent_name |-> agent_name,
      task |-> task,
      status |-> "pending",
      retry_count |-> 0,
      result |-> NoResult,
      started_at |-> 0,
      completed_at |-> 0,
      error_message |-> << >> ]

\* the steps of the agents order[k..], the first of them numbered step_id
RECURSIVE FlattenFrom(_, _, _, _)
FlattenFrom(order, assignments, k, step_id) ==
    IF k > Len(order) THEN << >>
    ELSE LET agent_name == order[k]
             tasks == DictGet(assignments, agent_name, << >>)
             mine == [j \in 1..Len(tasks) |->
                        ExecutionStep(step_id + j - 1, agent_name, tasks[j])]
         IN  mine \o FlattenFrom(order, assignments, k + 1, step_id + Len(tasks))

\* variant of prepare_execution that numbers the steps from 1
prepare_execution_FromOne(task_plan) ==
    FlattenFrom(task_plan.priority_order, task_plan.subagent_assignments, 1, 1)

prepare_execution(task_plan) ==
    FlattenFrom(task_plan.priority_order, task_plan.subagent_assignments, 1, 0)

(***************************************************************************)
(* Error messages                                                          *)
(***************************************************************************)
LowerWord(w) ==
    CASE w = "SubAgent" -> "subagent"
      [] w = "Timeout" -> "timeout"
      [] w = "EMPTY" -> "empty"
      [] w = "Unauthorized" -> "unauthorized"
      [] OTHER -> w

LowerMsg(msg) == [i \in DOMAIN msg |-> LowerWord(msg[i])]

\* kw in msg
Contains(msg, kw) ==
    \E i \in 1..(Len(msg) - Len(kw) + 1) : SubSeq(msg, i, i + Len(kw) - 1) = kw

\* ", ".join(errors)
RECURSIVE JoinErrors(_)
JoinErrors(errors) ==
    IF Len(errors) = 0 THEN << >>
    ELSE IF Len(errors) = 1 THEN errors[1]
    ELSE errors[1] \o << "," >> \o JoinErrors(Tail(errors))

\* f"SubAgent {agent_name} not found"
\* variant of the ValueError message that reads like a transient failure
NotFoundMessage_Temporary(agent_name) ==
    << "SubAgent", agent_name, "temporary", "failure" >>

NotFoundMessage(agent_name) == << "SubAgent", agent_name, "not", "found" >>

(***************************************************************************)
(* State Monitor: StateCheckerAgent                                        *)
(***************************************************************************)
max_consecutive_failures == 3

\* (is_ok, action, retry_recommended, max_retries_exceeded, requires_replanning)
StateCheckResult(ok, action, retry, exceeded, replanning) ==
    [ is_ok |-> ok,
      action |-> action,
      retry_recommended |-> retry,
      max_retries_exceeded |-> exceeded,
      requires_replanning |-> replanning ]

NoCheck == StateCheckResult(TRUE, "none", FALSE, FALSE, FALSE)

_success_result == StateCheckResult(TRUE, "continue", FALSE, FALSE, FALSE)

critical_agents == {"alpha_hound", "holdings_hunter", "technical_analyst"}

\* variant of _max_retries_exceeded that skips whatever the agent is
_max_retries_exceeded_AlwaysSkip(step) ==
    StateCheckResult(FALSE, "skip", FALSE, TRUE, FALSE)

_max_retries_exceeded(step) ==
    IF step.agent_name \in critical_agents
    THEN StateCheckResult(FALSE, "replan", FALSE, TRUE, TRUE)
    ELSE StateCheckResult(FALSE, "skip", FALSE, TRUE, FALSE)

_too_many_consecutive_failures ==
    StateCheckResult(FALSE, "replan", FALSE, FALSE, TRUE)

transient_keywords ==
    { << "timeout" >>, << "connection" >>, << "rate", "limit" >>,
      << "temporary" >>, << "503" >>, << "429" >>, << "network" >> }

data_keywords ==
    { << "no", "data" >>, << "not", "found" >>, << "empty" >>,
      << "unavailable" >> }

auth_keywords ==
    { << "api", "key" >>, << "unauthorized" >>, << "forbidden" >>,
      << "401" >>, << "403" >> }

AnyIn(keywords, msg) == \E kw \in keywords : Contains(msg, kw)

\* variant of _analyze_failure that answers a data-unavailable message by retry
_analyze_failure_DataRetry(step) ==
    LET error_msg == LowerMsg(step.error_message)
    IN  IF AnyIn(transient_keywords, error_msg)
        THEN StateCheckResult(FALSE, "retry", TRUE, FALSE, FALSE)
        ELSE IF AnyIn(data_keywords, error_msg)
        THEN StateCheckResult(FALSE, "retry", TRUE, FALSE, FALSE)
        ELSE IF AnyIn(auth_keywords, error_msg)
        THEN StateCheckResult(FALSE, "replan", FALSE, FALSE, TRUE)
        ELSE StateCheckResult(FALSE, "retry", TRUE, FALSE, FALSE)

\* variant of _analyze_failure that looks for the data markers first
_analyze_failure_DataFirst(step) ==
    LET error_msg == LowerMsg(step.error_message)
    IN  IF AnyIn(data_keywords, error_msg)
        THEN StateCheckResult(FALSE, "skip", FALSE, FALSE, FALSE)
        ELSE IF AnyIn(transient_keywords, error_msg)
        THEN StateCheckResult(FALSE, "retry", TRUE, FALSE, FALSE)
        ELSE IF AnyIn(auth_keywords, error_msg)
        THEN StateCheckResult(FALSE, "replan", FALSE, FALSE, TRUE)
        ELSE StateCheckResult(FALSE, "retry", TRUE, FALSE, FALSE)

_analyze_failure(step) ==
    LET error_msg == LowerMsg(step.error_message)
    IN  IF AnyIn(transient_keywords, error_msg)
        THEN StateCheckResult(FALSE, "retry", TRUE, FALSE, FALSE)
        ELSE IF AnyIn(data_keywords, error_msg)
        THEN StateCheckResult(FALSE, "skip", FALSE, FALSE, FALSE)
        ELSE IF AnyIn(auth_keywords, error_msg)
        THEN StateCheckResult(FALSE, "replan", FALSE, FALSE, TRUE)
        ELSE StateCheckResult(FALSE, "retry", TRUE, FALSE, FALSE)

\* variant of check_step whose circuit breaker needs one failure more (> for >=)
check_step_BreakerLate(step, max_retries, tf, cf) ==
    IF step.status = "complete"
    THEN [ result |-> _success_result, total_failures |-> tf,
           consecutive_failures |-> 0 ]
    ELSE LET tf1 == tf + 1
             cf1 == cf + 1
             r == IF step.retry_count >= max_retries
                  THEN _max_retries_exceeded(step)
                  ELSE IF cf1 > max_consecutive_failures
                  THEN _too_many_consecutive_failures
                  ELSE _analyze_failure(step)
         IN  [ result |-> r, total_failures |-> tf1,
               consecutive_failures |-> cf1 ]

\* variant of check_step that tests the circuit breaker before the retry cap
check_step_BreakerFirst(step, max_retries, tf, cf) ==
    IF step.status = "complete"
    THEN [ result |-> _success_result, total_failures |-> tf,
           consecutive_failures |-> 0 ]
    ELSE LET tf1 == tf + 1
             cf1 == cf + 1
             r == IF cf1 >= max_consecutive_failures
                  THEN _too_many_consecutive_failures
                  ELSE IF step.retry_count >= max_retries
                  THEN _max_retries_exceeded(step)
                  ELSE _analyze_failure(step)
         IN  [ result |-> r, total_failures |-> tf1,
               consecutive_failures |-> cf1 ]

\* variant of check_step that clears both counters on a complete step
check_step_ResetsBoth(step, max_retries, tf, cf) ==
    IF step.status = "complete"
    THEN [ result |-> _success_result, total_failures |-> 0,
           consecutive_failures |-> 0 ]
    ELSE LET tf1 == tf + 1
             cf1 == cf + 1
             r == IF step.retry_count >= max_retries
                  THEN _max_retries_exceeded(step)
                  ELSE IF cf1 >= max_consecutive_failures
                  THEN _too_many_consecutive_failures
                  ELSE _analyze_failure(step)
         IN  [ result |-> r, total_failures |-> tf1,
               consecutive_failures |-> cf1 ]

\* check_step: the result and the counters it leaves
check_step(step, max_retries, tf, cf) ==
    IF step.status = "complete"
    THEN [ result |-> _success_result, total_failures |-> tf,
           consecutive_failures |-> 0 ]
    ELSE LET tf1 == tf + 1
             cf1 == cf + 1
             r == IF step.retry_count >= max_retries
                  THEN _max_retries_exceeded(step)
                  ELSE IF cf1 >= max_consecutive_failures
                  THEN _too_many_consecutive_failures
                  ELSE _analyze_failure(step)
         IN  [ result |-> r, total_failures |-> tf1,
               consecutive_failures |-> cf1 ]

\* successful_steps / total_steps (0 when there is no step), as a fraction
success_rate(execution_steps) ==
    LET successful_steps ==
            Cardinality({i \in DOMAIN execution_steps :
                            execution_steps[i].status = "complete"})
        total_steps == Len(execution_steps)
    IN  IF total_steps > 0
        THEN [num |-> successful_steps, den |-> total_steps]
        ELSE [num |-> 0, den |-> 1]

\* variant of the threshold test that is strict (> for >=)
AtLeastHalf_Strict(rate) == 2 * rate.num > rate.den

\* rate >= 0.5
AtLeastHalf(rate) == 2 * rate.num >= rate.den

validate_final_state(execution_steps) ==
    IF AtLeastHalf(success_rate(execution_steps))
    THEN StateCheckResult(TRUE, "continue", FALSE, FALSE, FALSE)
    ELSE StateCheckResult(FALSE, "replan", FALSE, FALSE, TRUE)

(***************************************************************************)
(* What a collaborator can do when agent.execute(context) is awaited       *)
(***************************************************************************)
\* the messages a collaborator fails with: one per marker class of
\* _analyze_failure (a returned failure with no error at all has no marker)
Messages ==
    { << "connection", "timeout" >>,      \* transient
      << "empty", "result" >>,            \* data unavailable
      << "Unauthorized" >> }              \* auth

\* error messages that carry the markers of several failure classes, in any
\* letter case, and one that carries none
MixedMessages ==
    { << "Timeout", "EMPTY", "Unauthorized" >>,
      << "rate", "limit", "forbidden" >>,
      << "EMPTY", "Unauthorized" >>,
      << "not", "found", "401" >>,
      << "unknown", "failure" >> }

\* kind "ok": returns AgentResult(success=True)
\* kind "fail": returns AgentResult(success=False, errors=errors)
\* kind "raise": raises Exception(errors[1])
Outcomes ==
    { [kind |-> "ok", errors |-> << >>] }
    \cup { [kind |-> "fail", errors |-> << m >>] : m \in Messages }
    \cup { [kind |-> "fail", errors |-> << >>] }
    \cup { [kind |-> "raise", errors |-> << m >>] : m \in Messages }

(***************************************************************************)
(* Execution Engine: WorkingAgent                                          *)
(***************************************************************************)
\* the step the loop is at
step == steps[it]

\* the ordinal of the attempt a step is in
Attempt(s) == s.retry_count + 1

\* variant of _execute_step that does not mark the step in_progress
ExecuteStepBegin_NoMark(s) == [s EXCEPT !.started_at = Attempt(s)]

\* _execute_step up to the lookup of the collaborator
ExecuteStepBegin(s) ==
    [s EXCEPT !.status = "in_progress", !.started_at = Attempt(s)]

\* raise ValueError(f"SubAgent {step.agent_name} not found")
NotFound(s) == [kind |-> "raise", errors |-> << NotFoundMessage(s.agent_name) >>]

\* variant of _execute_step that drops the text of a raised exception
ExecuteStepEnd_RaiseUnnamed(s, o) ==
    IF o.kind = "ok"
    THEN [s EXCEPT !.result = AgentResult(TRUE, << >>),
                   !.status = "complete",
                   !.completed_at = Attempt(s)]
    ELSE IF o.kind = "fail"
    THEN [s EXCEPT !.result = AgentResult(FALSE, o.errors),
                   !.status = "failed",
                   !.error_message = JoinErrors(o.errors)]
    ELSE [s EXCEPT !.status = "failed",
                   !.error_message = << >>,
                   !.completed_at = Attempt(s)]

\* _execute_step from the collaborator's outcome o on
ExecuteStepEnd(s, o) ==
    IF o.kind = "ok"
    THEN [s EXCEPT !.result = AgentResult(TRUE, << >>),
                   !.status = "complete",
                   !.completed_at = Attempt(s)]
    ELSE IF o.kind = "fail"
    THEN [s EXCEPT !.result = AgentResult(FALSE, o.errors),
                   !.status = "failed",
                   !.error_message = JoinErrors(o.errors)]
    ELSE [s EXCEPT !.status = "failed",
                   !.error_message = o.errors[1],
                   !.completed_at = Attempt(s)]

\* variant of execute_plan that does not record the error of a failed step
NextIteration_NoError(s, success) ==
    /\ steps' = [steps EXCEPT ![it] = s]
    /\ has_error' = has_error
    /\ it' = it + 1
    /\ in_retry' = FALSE
    /\ pc' = "loop"

\* execute_plan, lines 182-183 and the loop's advance, for the step s
\* whose last attempt returned success
NextIteration(s, success) ==
    /\ steps' = [steps EXCEPT ![it] = s]
    /\ has_error' = (has_error \/ (~success /\ s.status # "skipped"))
    /\ it' = it + 1
    /\ in_retry' = FALSE
    /\ pc' = "loop"

\* variant of _retry_step whose loop test is off by one (<= for <)
RetryOrGiveUp_OffByOne(s) ==
    IF s.retry_count <= max_retry_count
    THEN /\ steps' = [steps EXCEPT ![it] = [s EXCEPT !.retry_count = @ + 1]]
         /\ in_retry' = TRUE
         /\ pc' = "sleep"
         /\ UNCHANGED << has_error, it >>
    ELSE NextIteration(s, FALSE)

\* _retry_step after a failed attempt (or on entry): one more attempt, or give up
RetryOrGiveUp(s) ==
    IF s.retry_count < max_retry_count
    THEN /\ steps' = [steps EXCEPT ![it] = [s EXCEPT !.retry_count = @ + 1]]
         /\ in_retry' = TRUE
         /\ pc' = "sleep"
         /\ UNCHANGED << has_error, it >>
    ELSE NextIteration(s, FALSE)

\* run(): parse the task type, plan, reset the counters, prepare the execution
RunInputs ==
    { [kind |-> "str", value |-> v] :
        v \in TaskTypeValues \cup {"bogus"} }
    \cup { [kind |-> "enum", value |-> v] :
        v \in TaskTypeValues \cup {OtherTaskType} }

NoReturn == [present |-> FALSE, success |-> FALSE, has_error_field |-> FALSE]

\* TaskType(task_type) for a string: whether it raises ValueError
TaskTypeRaises(inp) == inp.kind = "str" /\ inp.value \notin TaskTypeValues

\* variant of reset_counters that leaves the counters as they are
reset_counters_Keep ==
    /\ total_failures' = total_failures
    /\ consecutive_failures' = consecutive_failures

reset_counters ==
    /\ total_failures' = 0
    /\ consecutive_failures' = 0

Idle == pc \in {"idle", "returned", "raised"}

\* (a call that raises is made only while no run has returned yet; the
\* history variable stale_failures is set where Run is used)
Run(inp) ==
    /\ Idle
    /\ TaskTypeRaises(inp) => pc # "returned"
    /\ IF TaskTypeRaises(inp)
       THEN /\ pc' = "raised"
            /\ ret' = NoReturn
            /\ UNCHANGED << plan, steps, current_step, it, in_retry, has_error,
                            is_complete, total_failures, consecutive_failures,
                            check_result, final_check, calls, replanned >>
       ELSE LET task_plan == create_task_plan(inp.value)
                new_steps == prepare_execution(task_plan)
            IN  /\ plan' = task_plan
                /\ reset_counters
                /\ steps' = new_steps
                /\ current_step' = 0
                /\ it' = 1
                /\ in_retry' = FALSE
                /\ has_error' = FALSE
                /\ is_complete' = FALSE
                /\ check_result' = NoCheck
                /\ final_check' = NoCheck
                /\ ret' = NoReturn
                /\ calls' = [i \in DOMAIN new_steps |-> 0]
                /\ replanned' = FALSE
                /\ pc' = "loop"
    /\ UNCHANGED << max_retry_count, subagents, dataVars, trace, conc >>

\* variant of the loop that starts a step's collaborator without awaiting it
BeginStep_NoAwait ==
    /\ pc = "loop"
    /\ ~replanned
    /\ it <= Len(steps)
    /\ steps' = [steps EXCEPT ![it] = ExecuteStepBegin(step)]
    /\ current_step' = step.step_id
    /\ calls' = [calls EXCEPT ![it] = @ + 1]
    /\ it' = it + 1
    /\ pc' = "loop"
    /\ UNCHANGED << max_retry_count, subagents, plan, in_retry, has_error,
                    is_complete, total_failures, consecutive_failures,
                    check_result, final_check, ret, replanned, notEngineVars >>

\* the loop takes its next step and starts its first attempt: the step is
\* marked in_progress and, when its collaborator is registered, the
\* collaborator is invoked
BeginStep ==
    /\ pc = "loop"
    /\ ~replanned
    /\ it <= Len(steps)
    /\ steps' = [steps EXCEPT ![it] = ExecuteStepBegin(step)]
    /\ current_step' = step.step_id
    /\ calls' = [calls EXCEPT ![it] =
                    IF step.agent_name \in subagents THEN @ + 1 ELSE @]
    /\ pc' = "await"
    /\ UNCHANGED << max_retry_count, subagents, plan, it, in_retry, has_error,
                    is_complete, total_failures, consecutive_failures,
                    check_result, final_check, ret, replanned, notEngineVars >>

\* variant of the engine that asks the Monitor after every attempt, the
\* retries included
AfterAttempt_AlwaysCheck(s) ==
    /\ steps' = [steps EXCEPT ![it] = s]
    /\ pc' = "check"
    /\ UNCHANGED << it, in_retry, has_error >>

\* the attempt of the step has ended and left it as s: back in execute_plan
\* (first attempt) or in the loop of _retry_step
AfterAttempt(s) ==
    IF ~in_retry
    THEN /\ steps' = [steps EXCEPT ![it] = s]
         /\ pc' = "check"
         /\ UNCHANGED << it, in_retry, has_error >>
    ELSE IF s.status = "complete"
    THEN NextIteration(s, TRUE)
    ELSE RetryOrGiveUp(s)

\* the awaited collaborator ends with outcome o; during the retries of a step
\* it fails with the message of the step's first failure (returning it or
\* raising it, freely at each attempt)
AgentDone(o) ==
    /\ pc = "await"
    /\ step.agent_name \in subagents
    /\ in_retry /\ o.kind # "ok" => JoinErrors(o.errors) = step.error_message
    /\ AfterAttempt(ExecuteStepEnd(step, o))
    /\ UNCHANGED << max_retry_count, subagents, plan, current_step, is_complete,
                    total_failures, consecutive_failures, check_result,
                    final_check, ret, calls, replanned, notEngineVars >>

\* the step names a collaborator that is not registered: ValueError is raised
\* inside the try block and no collaborator is invoked
AgentNotFound ==
    /\ pc = "await"
    /\ step.agent_name \notin subagents
    /\ AfterAttempt(ExecuteStepEnd(step, NotFound(step)))
    /\ UNCHANGED << max_retry_count, subagents, plan, current_step, is_complete,
                    total_failures, consecutive_failures, check_result,
                    final_check, ret, calls, replanned, notEngineVars >>

\* variant of execute_plan that records the error on "replan" but does not
\* leave the loop
ApplyReplan_NoBreak ==
    /\ NextIteration(step, FALSE)
    /\ UNCHANGED replanned

\* variant of execute_plan that leaves the loop on "replan" without recording
\* the error
ApplyReplan_NoError ==
    /\ has_error' = has_error
    /\ replanned' = TRUE
    /\ pc' = "loop"
    /\ UNCHANGED << steps, it, in_retry >>

\* execute_plan on "replan": has_error is set and the loop is left by break
ApplyReplan ==
    /\ has_error' = TRUE
    /\ replanned' = TRUE
    /\ pc' = "loop"
    /\ UNCHANGED << steps, it, in_retry >>

\* the Monitor is asked about the step, and its decision is applied
CheckStep ==
    /\ pc = "check"
    /\ LET c == check_step(step, max_retry_count, total_failures,
                           consecutive_failures)
           success == step.status = "complete"
       IN  /\ total_failures' = c.total_failures
           /\ consecutive_failures' = c.consecutive_failures
           /\ check_result' = c.result
           /\ IF ~c.result.is_ok /\ c.result.action = "retry"
              THEN /\ RetryOrGiveUp(step)
                   /\ UNCHANGED replanned
              ELSE IF ~c.result.is_ok /\ c.result.action = "skip"
              THEN /\ NextIteration([step EXCEPT !.status = "skipped"], success)
                   /\ UNCHANGED replanned
              ELSE IF ~c.result.is_ok /\ c.result.action = "replan"
              THEN ApplyReplan
              ELSE /\ NextIteration(step, success)
                   /\ UNCHANGED replanned
    /\ UNCHANGED << max_retry_count, subagents, plan, current_step, is_complete,
                    final_check, ret, calls, notEngineVars >>

\* _retry_step: the backoff sleep is over, the step is attempted again
RetryAttempt ==
    /\ pc = "sleep"
    /\ steps' = [steps EXCEPT ![it] = ExecuteStepBegin(step)]
    /\ calls' = [calls EXCEPT ![it] =
                    IF step.agent_name \in subagents THEN @ + 1 ELSE @]
    /\ pc' = "await"
    /\ UNCHANGED << max_retry_count, subagents, plan, current_step, it,
                    in_retry, has_error, is_complete, total_failures,
                    consecutive_failures, check_result, final_check, ret,
                    replanned, notEngineVars >>

\* variant of the end of execute_plan that does not set is_complete
FinishAndReturn_NotComplete ==
    /\ pc = "loop"
    /\ replanned \/ it > Len(steps)
    /\ LET fc == validate_final_state(steps)
       IN  /\ final_check' = fc
           /\ ret' = [present |-> TRUE, success |-> fc.is_ok,
                      has_error_field |-> FALSE]
    /\ pc' = "returned"
    /\ UNCHANGED << max_retry_count, subagents, plan, steps, current_step, it,
                    in_retry, has_error, is_complete, total_failures,
                    consecutive_failures, check_result, calls, replanned,
                    notEngineVars >>

\* the loop is over (exhausted, or left by break): execute_plan marks the
\* state complete and returns; run() validates the final state and returns
\* the result object
FinishAndReturn ==
    /\ pc = "loop"
    /\ replanned \/ it > Len(steps)
    /\ is_complete' = TRUE
    /\ LET fc == validate_final_state(steps)
       IN  /\ final_check' = fc
           /\ ret' = [present |-> TRUE, success |-> fc.is_ok,
                      has_error_field |-> FALSE]
    /\ pc' = "returned"
    /\ UNCHANGED << max_retry_count, subagents, plan, steps, current_step, it,
                    in_retry, has_error, total_failures, consecutive_failures,
                    check_result, calls, replanned, notEngineVars >>

(***************************************************************************)
(* Market data layer: detect_market_type                                   *)
(***************************************************************************)
Digits == {"0", "1", "5", "6", "7", "9"}

UpperLetters == {"A", "H", "K", "L", "P", "S", "Z"}

LowerLetters == {"s"}

\* str.upper(), per character
UpperChar(c) == IF c = "s" THEN "S" ELSE c

Upper(str) == [i \in DOMAIN str |-> UpperChar(str[i])]

\* str.strip(): leading and trailing blanks removed
RECURSIVE LStrip(_)
LStrip(str) ==
    IF str # << >> /\ Head(str) = " " THEN LStrip(Tail(str)) ELSE str

RECURSIVE RStrip(_)
RStrip(str) ==
    IF str # << >> /\ str[Len(str)] = " "
    THEN RStrip(SubSeq(str, 1, Len(str) - 1))
    ELSE str

Strip(str) == RStrip(LStrip(str))

\* str.replace(c, '')
RECURSIVE Remove(_, _)
Remove(str, c) ==
    IF str = << >> THEN << >>
    ELSE IF Head(str) = c THEN Remove(Tail(str), c)
    ELSE << Head(str) >> \o Remove(Tail(str), c)

\* str.isdigit(), str.isalpha(), str.isalnum(): false of the empty string
IsDigit(str) == str # << >> /\ \A i \in DOMAIN str : str[i] \in Digits

IsAlpha(str) ==
    str # << >> /\ \A i \in DOMAIN str : str[i] \in UpperLetters \cup LowerLetters

IsAlnum(str) ==
    /\ str # << >>
    /\ \A i \in DOMAIN str : str[i] \in Digits \cup UpperLetters \cup LowerLetters

\* variant of detect_market_type that lacks the test of the .SS/.SZ suffix
detect_market_type_NoSuffix(stock_code) ==
    LET c == Upper(Strip(stock_code))
        pure_code == Remove(c, ".")
    IN  IF Contains(c, << ".", "H", "K" >>)
        THEN "hk_stock"
        ELSE IF IsDigit(pure_code) /\ Len(pure_code) = 6
        THEN "a_share"
        ELSE IF IsDigit(pure_code) /\ Len(pure_code) = 5
        THEN "hk_stock"
        ELSE IF \/ IsAlpha(c)
                \/ (IsAlnum(Remove(Remove(c, "-"), ".")) /\ ~IsDigit(c))
        THEN "us_stock"
        ELSE "unknown"

detect_market_type(stock_code) ==
    LET c == Upper(Strip(stock_code))
        pure_code == Remove(c, ".")
    IN  IF Contains(c, << ".", "S", "S" >>) \/ Contains(c, << ".", "S", "Z" >>)
        THEN "a_share"
        ELSE IF Contains(c, << ".", "H", "K" >>)
        THEN "hk_stock"
        ELSE IF IsDigit(pure_code) /\ Len(pure_code) = 6
        THEN "a_share"
        ELSE IF IsDigit(pure_code) /\ Len(pure_code) = 5
        THEN "hk_stock"
        ELSE IF \/ IsAlpha(c)
                \/ (IsAlnum(Remove(Remove(c, "-"), ".")) /\ ~IsDigit(c))
        THEN "us_stock"
        ELSE "unknown"

NoMarket == "none"

(***************************************************************************)
(* Market data layer: the fetchers and DataFetcherManager                  *)
(***************************************************************************)
AkshareFetcher ==
    [ name |-> "AkshareFetcher", priority |-> 0,
      supported_markets |-> {"a_share"} ]

EfinanceFetcher ==
    [ name |-> "EfinanceFetcher", priority |-> 1,
      supported_markets |-> {"a_share"} ]

YfinanceFetcher ==
    [ name |-> "YfinanceFetcher", priority |-> 2,
      supported_markets |-> {"us_stock", "hk_stock", "a_share"} ]

supports_market(fetcher, market_type) ==
    market_type \in fetcher.supported_markets

\* list.insert of f behind every element whose priority is not greater
InsertByPriority(f, sorted) ==
    LET k == Cardinality({i \in DOMAIN sorted : sorted[i].priority <= f.priority})
    IN  SubSeq(sorted, 1, k) \o << f >> \o SubSeq(sorted, k + 1, Len(sorted))

\* variant of the sort by priority that sorts in descending order
RECURSIVE SortByPriority_Descending(_)
SortByPriority_Descending(fs) ==
    IF fs = << >> THEN << >>
    ELSE LET f == fs[Len(fs)]
             sorted == SortByPriority_Descending(SubSeq(fs, 1, Len(fs) - 1))
             k == Cardinality({i \in DOMAIN sorted :
                                 sorted[i].priority >= f.priority})
         IN  SubSeq(sorted, 1, k) \o << f >> \o SubSeq(sorted, k + 1, Len(sorted))

\* sorted(fetchers, key=lambda f: f.priority), a stable sort
RECURSIVE SortByPriority(_)
SortByPriority(fs) ==
    IF fs = << >> THEN << >>
    ELSE InsertByPriority(fs[Len(fs)],
                          SortByPriority(SubSeq(fs, 1, Len(fs) - 1)))

_init_default_fetchers ==
    SortByPriority(<< AkshareFetcher, EfinanceFetcher, YfinanceFetcher >>)

\* DataFetcherManager.__init__: an empty (or absent) list means the defaults
DataFetcherManager(given) ==
    IF given # << >> THEN SortByPriority(given) ELSE _init_default_fetchers

\* variant of get_daily_data without the fallback to every fetcher
SuitableFetchers_NoFallback(registered, market_type) ==
    SelectSeq(registered, LAMBDA f : supports_market(f, market_type))

\* get_daily_data: the fetchers that support the market, or all of them
SuitableFetchers(registered, market_type) ==
    LET supporting == SelectSeq(registered,
                                LAMBDA f : supports_market(f, market_type))
    IN  IF supporting = << >> THEN registered ELSE supporting

\* what _fetch_raw_data of a fetcher can give:
\*   "error"    it raises
\*   "nothing"  None or an empty frame
\*   "no_close" rows, none of which has both a close and a volume
\*   "rows"     rows with close and volume
RawData == {"error", "nothing", "no_close", "rows"}

\* BaseFetcher.get_daily_data: what the manager gets from a fetcher
BaseFetcher_get_daily_data(fetcher, raw) ==
    IF raw = "error" \/ raw = "nothing"
    THEN [kind |-> "raise", by |-> fetcher.name]
    ELSE IF raw = "no_close"
    THEN [kind |-> "empty", by |-> fetcher.name]
    ELSE [kind |-> "table", by |-> fetcher.name]

NoFetch == [kind |-> "none", df |-> "none", name |-> "none", errors |-> << >>]

\* the manager is not constructed
NoManager ==
    /\ fetchers = << >>
    /\ suitable_fetchers = << >>
    /\ fi = 1
    /\ fetch_errors = << >>
    /\ fetch_pc = "idle"
    /\ fetched = NoFetch
    /\ attempts = << >>

\* get_daily_data up to the loop
GetDailyData ==
    /\ fetch_pc = "idle"
    /\ market' = detect_market_type(code)
    /\ suitable_fetchers' = SuitableFetchers(fetchers, market')
    /\ fetch_errors' = << >>
    /\ fi' = 1
    /\ fetch_pc' = "loop"
    /\ UNCHANGED << code, fetchers, fetched, attempts, notDataVars >>

\* one round of the loop: the fetcher is called and its outcome handled
TryFetcher(raw) ==
    /\ fetch_pc = "loop"
    /\ fi <= Len(suitable_fetchers)
    /\ LET fetcher == suitable_fetchers[fi]
           o == BaseFetcher_get_daily_data(fetcher, raw)
       IN  /\ attempts' = Append(attempts, [name |-> fetcher.name, kind |-> o.kind])
           /\ IF o.kind = "table"
              THEN /\ fetched' = [kind |-> "return", df |-> o.by,
                                  name |-> fetcher.name, errors |-> << >>]
                   /\ fetch_pc' = "returned"
                   /\ UNCHANGED << fi, fetch_errors >>
              ELSE IF o.kind = "empty"
              THEN /\ fi' = fi + 1
                   /\ UNCHANGED << fetch_errors, fetched, fetch_pc >>
              ELSE /\ fetch_errors' = Append(fetch_errors, fetcher.name)
                   /\ fi' = fi + 1
                   /\ UNCHANGED << fetched, fetch_pc >>
    /\ UNCHANGED << code, market, fetchers, suitable_fetchers, notDataVars >>

\* the loop is exhausted: raise DataFetchError(error_summary)
RaiseAllFailed ==
    /\ fetch_pc = "loop"
    /\ fi > Len(suitable_fetchers)
    /\ fetched' = [kind |-> "raise", df |-> "none", name |-> "none",
                   errors |-> fetch_errors]
    /\ fetch_pc' = "raised"
    /\ UNCHANGED << code, market, fetchers, suitable_fetchers, fi, fetch_errors,
                    attempts, notDataVars >>

\* the run() calls that can be in flight together
ConcRuns == {1, 2}

\* the local state of one run() call
ConcIdle ==
    [ pc |-> "idle", steps |-> << >>, it |-> 1, in_retry |-> FALSE,
      has_error |-> FALSE, replanned |-> FALSE, decisions |-> << >> ]

NoRuns == [r \in ConcRuns |-> ConcIdle]

\* the orchestrator as constructed: nothing has run yet
Init ==
    /\ max_retry_count \in 0..MaxRetryCfg
    /\ subagents \in { SUBAGENT_MAP \ missing :
                         missing \in { m \in SUBSET Unloadable :
                                         Cardinality(m) <= MaxMissing } }
    /\ pc = "idle"
    /\ plan = NoPlan
    /\ steps = << >>
    /\ current_step = 0
    /\ it = 1
    /\ in_retry = FALSE
    /\ has_error = FALSE
    /\ is_complete = FALSE
    /\ total_failures = 0
    /\ consecutive_failures = 0
    /\ check_result = NoCheck
    /\ final_check = NoCheck
    /\ ret = NoReturn
    /\ calls = << >>
    /\ replanned = FALSE
    /\ code = << >>
    /\ market = NoMarket
    /\ NoManager
    /\ trace = << >>
    /\ stale_failures = FALSE
    /\ conc = NoRuns

Next ==
    \/ \E inp \in RunInputs : Run(inp) /\ UNCHANGED stale_failures
    \/ BeginStep
    \/ \E o \in Outcomes : AgentDone(o)
    \/ AgentNotFound
    \/ CheckStep
    \/ RetryAttempt
    \/ FinishAndReturn

Spec == Init /\ [][Next]_vars

\* the event loop resumes a coroutine that can run; an awaited collaborator
\* ends (by returning or by raising) and the backoff sleep ends
Fairness ==
    /\ WF_vars(BeginStep)
    /\ WF_vars(\E o \in Outcomes : AgentDone(o))
    /\ WF_vars(AgentNotFound)
    /\ WF_vars(CheckStep)
    /\ WF_vars(RetryAttempt)
    /\ WF_vars(FinishAndReturn)

SpecLive == Spec /\ Fairness

(***************************************************************************)
(* detect_market_type applied to a bounded set of codes                    *)
(***************************************************************************)
TailChars == {"6", "S", "Z", "H", "K", "s", ".", "-", " "}

Repeat(c, n) == [i \in 1..n |-> c]

\* the codes the specification of the market layer mentions
ExampleCodes ==
    { << "6", "0", "0", "5", "1", "9" >>,
      << "0", "0", "7", "0", "0" >>,
      << "A", "A", "P", "L" >>,
      << "6", "0", "0", "5", "1", "9", ".", "S", "S" >> }

Codes ==
    ExampleCodes
    \cup { Repeat(d, n) \o t :
             d \in {"0", "6"}, n \in 0..MaxDigits,
             t \in UNION { [1..k -> TailChars] : k \in 0..MaxTail } }

InitMarket ==
    /\ max_retry_count = 0
    /\ subagents = SUBAGENT_MAP
    /\ pc = "idle"
    /\ plan = NoPlan
    /\ steps = << >>
    /\ current_step = 0
    /\ it = 1
    /\ in_retry = FALSE
    /\ has_error = FALSE
    /\ is_complete = FALSE
    /\ total_failures = 0
    /\ consecutive_failures = 0
    /\ check_result = NoCheck
    /\ final_check = NoCheck
    /\ ret = NoReturn
    /\ calls = << >>
    /\ replanned = FALSE
    /\ code \in Codes
    /\ market = NoMarket
    /\ NoManager
    /\ trace = << >>
    /\ stale_failures = FALSE
    /\ conc = NoRuns

DetectMarket ==
    /\ market = NoMarket
    /\ market' = detect_market_type(code)
    /\ UNCHANGED << code, fetchVars, notDataVars >>

NextMarket == DetectMarket

SpecMarket == InitMarket /\ [][NextMarket]_vars

(***************************************************************************)
(* get_daily_data of a manager built from a list of fetchers               *)
(***************************************************************************)
\* the engine as constructed with every collaborator loaded, and never run
EngineNotRun ==
    /\ subagents = SUBAGENT_MAP
    /\ pc = "idle"
    /\ plan = NoPlan
    /\ steps = << >>
    /\ current_step = 0
    /\ it = 1
    /\ in_retry = FALSE
    /\ has_error = FALSE
    /\ is_complete = FALSE
    /\ check_result = NoCheck
    /\ final_check = NoCheck
    /\ ret = NoReturn
    /\ calls = << >>
    /\ replanned = FALSE

DefaultFetchers == {AkshareFetcher, EfinanceFetcher, YfinanceFetcher}

\* the lists a manager is built from: the default fetchers in any order and
\* number, each at most once (the empty list selects the defaults)
FetcherLists ==
    { fs \in UNION { [1..n -> DefaultFetchers] : n \in 0..3 } :
        \A i, j \in DOMAIN fs : i # j => fs[i] # fs[j] }

\* codes of every market type, and one of none
FetchCodes == ExampleCodes \cup { << "-" >> }

InitFetch ==
    /\ EngineNotRun
    /\ max_retry_count = 0
    /\ total_failures = 0
    /\ consecutive_failures = 0
    /\ code \in FetchCodes
    /\ market = NoMarket
    /\ \E given \in FetcherLists : fetchers = DataFetcherManager(given)
    /\ suitable_fetchers = << >>
    /\ fi = 1
    /\ fetch_errors = << >>
    /\ fetch_pc = "idle"
    /\ fetched = NoFetch
    /\ attempts = << >>
    /\ trace = << >>
    /\ stale_failures = FALSE
    /\ conc = NoRuns

NextFetch ==
    \/ GetDailyData
    \/ \E raw \in RawData : TryFetcher(raw)
    \/ RaiseAllFailed

SpecFetch == InitFetch /\ [][NextFetch]_vars

(***************************************************************************)
(* check_step called directly, on any failed or complete step              *)
(***************************************************************************)
MonitorAgents == {"technical_analyst", "news_analyst"}

\* a step as the engine hands it to check_step
CheckedStep(agent_name, status, retry_count, error_message) ==
    [ ExecutionStep(0, agent_name, << >>) EXCEPT
        !.status = status,
        !.retry_count = retry_count,
        !.error_message = error_message ]

MonitorSteps ==
    { CheckedStep(a, st, 0, << >>) :
        a \in MonitorAgents, st \in {"complete", "pending", "skipped"} }
    \cup { CheckedStep(a, "failed", n, m) :
             a \in MonitorAgents, n \in 0..MonMaxRetries,
             m \in Messages \cup { << >> } }

\* a Monitor that has seen up to MaxPriorFailures failures in a row since its
\* counters were reset, and no call recorded yet
InitMonitor ==
    /\ EngineNotRun
    /\ max_retry_count \in 0..MonMaxRetries
    /\ consecutive_failures \in 0..MaxPriorFailures
    /\ total_failures = consecutive_failures
    /\ code = << >>
    /\ market = NoMarket
    /\ NoManager
    /\ trace = << >>
    /\ stale_failures = FALSE
    /\ conc = NoRuns

\* result = state_checker.check_step(step), for up to
\* max_consecutive_failures recorded calls
MonitorCheck(s) ==
    /\ Len(trace) < max_consecutive_failures
    /\ LET c == check_step(s, max_retry_count, total_failures,
                           consecutive_failures)
       IN  /\ total_failures' = c.total_failures
           /\ consecutive_failures' = c.consecutive_failures
           /\ check_result' = c.result
           /\ trace' = Append(trace,
                              [ step |-> s, result |-> c.result,
                                total_failures |-> c.total_failures,
                                consecutive_failures |-> c.consecutive_failures ])
    /\ UNCHANGED << max_retry_count, subagents, pc, plan, steps, current_step,
                    it, in_retry, has_error, is_complete, final_check, ret,
                    calls, replanned, dataVars, stale_failures, conc >>

\* state_checker.reset_counters()
MonitorReset ==
    /\ trace # << >>
    /\ reset_counters
    /\ trace' = << >>
    /\ UNCHANGED << max_retry_count, subagents, pc, plan, steps, current_step,
                    it, in_retry, has_error, is_complete, check_result,
                    final_check, ret, calls, replanned, dataVars,
                    stale_failures, conc >>

NextMonitor ==
    \/ \E s \in MonitorSteps : MonitorCheck(s)
    \/ MonitorReset

SpecMonitor == InitMonitor /\ [][NextMonitor]_vars

(***************************************************************************)
(* check_step called once, on a step of any collaborator, with the         *)
(* counters anywhere                                                       *)
(***************************************************************************)
AnySteps ==
    { CheckedStep(a, "complete", 0, << >>) : a \in SUBAGENT_MAP }
    \cup { CheckedStep(a, "failed", n, m) :
             a \in SUBAGENT_MAP, n \in 0..MonMaxRetries,
             m \in Messages \cup MixedMessages \cup { << >> } }

InitCheckStep ==
    /\ EngineNotRun
    /\ max_retry_count \in 0..MonMaxRetries
    /\ consecutive_failures \in 0..(max_consecutive_failures + MaxPriorFailures)
    /\ total_failures = consecutive_failures
    /\ code = << >>
    /\ market = NoMarket
    /\ NoManager
    /\ trace = << >>
    /\ stale_failures = FALSE
    /\ conc = NoRuns

NextCheckStep == \E s \in AnySteps : trace = << >> /\ MonitorCheck(s)

SpecCheckStep == InitCheckStep /\ [][NextCheckStep]_vars

(***************************************************************************)
(* Runs one after another on the same orchestrator, with the history of    *)
(* what each run() call found in the Monitor                               *)
(***************************************************************************)
NextRuns ==
    \/ \E inp \in RunInputs :
          Run(inp) /\ stale_failures' = (consecutive_failures >= 2)
    \/ BeginStep
    \/ \E o \in Outcomes : AgentDone(o)
    \/ AgentNotFound
    \/ CheckStep
    \/ RetryAttempt
    \/ FinishAndReturn

SpecRuns == Init /\ [][NextRuns]_vars

(***************************************************************************)
(* The engine on an orchestrator one of whose collaborators, any of the    *)
(* six, failed to load                                                     *)
(***************************************************************************)
InitMissing ==
    /\ max_retry_count \in 0..MaxRetryCfg
    /\ subagents \in { SUBAGENT_MAP \ {a} : a \in SUBAGENT_MAP }
    /\ pc = "idle"
    /\ plan = NoPlan
    /\ steps = << >>
    /\ current_step = 0
    /\ it = 1
    /\ in_retry = FALSE
    /\ has_error = FALSE
    /\ is_complete = FALSE
    /\ total_failures = 0
    /\ consecutive_failures = 0
    /\ check_result = NoCheck
    /\ final_check = NoCheck
    /\ ret = NoReturn
    /\ calls = << >>
    /\ replanned = FALSE
    /\ code = << >>
    /\ market = NoMarket
    /\ NoManager
    /\ trace = << >>
    /\ stale_failures = FALSE
    /\ conc = NoRuns

SpecMissing == InitMissing /\ [][Next]_vars

(***************************************************************************)
(* Two run() calls in flight on one orchestrator (one StateCheckerAgent).  *)
(* A run is suspended only where it awaits a collaborator or the backoff   *)
(* sleep; between two such points its code runs without interruption.     *)
(* The steps are local to each call (execute_plan works on the             *)
(* ExecutionState it got from prepare_execution); the counters are shared. *)
(***************************************************************************)
\* the loop takes the step at rec.it and awaits its collaborator, or is over
ConcStart(rec) ==
    IF rec.replanned \/ rec.it > Len(rec.steps)
    THEN [rec EXCEPT !.pc = "returned"]
    ELSE [rec EXCEPT !.steps[rec.it] = ExecuteStepBegin(@), !.pc = "await"]

\* execute_plan, lines 182-183 and the loop's advance
ConcNext(rec, s, success) ==
    ConcStart([rec EXCEPT !.steps[rec.it] = s,
                          !.has_error = (@ \/ (~success /\ s.status # "skipped")),
                          !.it = @ + 1,
                          !.in_retry = FALSE])

\* _retry_step: one more attempt after the sleep, or give up
ConcRetry(rec, s) ==
    IF s.retry_count < max_retry_count
    THEN [rec EXCEPT !.steps[rec.it] = [s EXCEPT !.retry_count = @ + 1],
                     !.in_retry = TRUE,
                     !.pc = "sleep"]
    ELSE ConcNext(rec, s, FALSE)

\* execute_plan: the decision of check_step applied to the step s
ConcApply(rec, s, result) ==
    LET success == s.status = "complete"
        rec1 == [rec EXCEPT !.decisions =
                    Append(@, [step |-> s, result |-> result])]
    IN  IF ~result.is_ok /\ result.action = "retry"
        THEN ConcRetry(rec1, s)
        ELSE IF ~result.is_ok /\ result.action = "skip"
        THEN ConcNext(rec1, [s EXCEPT !.status = "skipped"], success)
        ELSE IF ~result.is_ok /\ result.action = "replan"
        THEN ConcStart([rec1 EXCEPT !.steps[rec.it] = s,
                                    !.has_error = TRUE,
                                    !.replanned = TRUE])
        ELSE ConcNext(rec1, s, success)

\* variant of the counter update of check_step that leaves the counters alone
ConcCounters_Keep(c) ==
    /\ total_failures' = total_failures
    /\ consecutive_failures' = consecutive_failures

\* check_step stores its counters in the instance
ConcCounters(c) ==
    /\ total_failures' = c.total_failures
    /\ consecutive_failures' = c.consecutive_failures

\* the task types and collaborator outcomes of the concurrent runs
ConcTaskTypes == {"holdings_tracking", "stock_screening"}

ConcOutcomes ==
    { [kind |-> "ok", errors |-> << >>],
      [kind |-> "fail", errors |-> << << "connection", "timeout" >> >>] }

\* run() of call r up to its first await: plan, reset_counters, prepare, and
\* the first step's collaborator is awaited
ConcRun(r, task_type) ==
    /\ conc[r].pc = "idle"
    /\ reset_counters
    /\ conc' = [conc EXCEPT ![r] =
                  ConcStart([ConcIdle EXCEPT
                               !.steps = prepare_execution(
                                            create_task_plan(task_type))])]
    /\ UNCHANGED notConcVars

\* the collaborator awaited by call r ends with outcome o, and the call runs
\* on to its next await or to its return
ConcAgentDone(r, o) ==
    /\ conc[r].pc = "await"
    /\ LET rec == conc[r]
           s == ExecuteStepEnd(rec.steps[rec.it], o)
       IN  IF ~rec.in_retry
           THEN LET c == check_step(s, max_retry_count, total_failures,
                                    consecutive_failures)
                IN  /\ ConcCounters(c)
                    /\ conc' = [conc EXCEPT ![r] = ConcApply(rec, s, c.result)]
           ELSE /\ conc' = [conc EXCEPT ![r] =
                              IF s.status = "complete"
                              THEN ConcNext(rec, s, TRUE)
                              ELSE ConcRetry(rec, s)]
                /\ UNCHANGED << total_failures, consecutive_failures >>
    /\ UNCHANGED notConcVars

\* the backoff sleep of call r is over: the step is attempted again
ConcWake(r) ==
    /\ conc[r].pc = "sleep"
    /\ conc' = [conc EXCEPT ![r] =
                  [@ EXCEPT !.steps[@.it] = ExecuteStepBegin(@), !.pc = "await"]]
    /\ UNCHANGED << total_failures, consecutive_failures, notConcVars >>

InitConc ==
    /\ EngineNotRun
    /\ max_retry_count = 1
    /\ total_failures = 0
    /\ consecutive_failures = 0
    /\ code = << >>
    /\ market = NoMarket
    /\ NoManager
    /\ trace = << >>
    /\ stale_failures = FALSE
    /\ conc = NoRuns

NextConc ==
    \/ \E r \in ConcRuns, task_type \in ConcTaskTypes : ConcRun(r, task_type)
    \/ \E r \in ConcRuns, o \in ConcOutcomes : ConcAgentDone(r, o)
    \/ \E r \in ConcRuns : ConcWake(r)

SpecConc == InitConc /\ [][NextConc]_vars

(***************************************************************************)
(* Two orchestrators, each with its own Monitor, given the same task and   *)
(* the same collaborator outcomes, except that where the collaborator of   *)
(* the first raises Exception(m) the collaborator of the second may return *)
(* AgentResult(success=False, errors=[m]), and the other way round. The    *)
(* two are kept in conc[1] and conc[2], each with its Monitor's counters.  *)
(***************************************************************************)
TwinIdle ==
    [ pc |-> "idle", steps |-> << >>, it |-> 1, in_retry |-> FALSE,
      has_error |-> FALSE, replanned |-> FALSE, decisions |-> << >>,
      total_failures |-> 0, consecutive_failures |-> 0 ]

\* the outcome with the same message delivered the other way
Swapped(o) ==
    IF o.kind = "raise" THEN [kind |-> "fail", errors |-> o.errors]
    ELSE IF o.kind = "fail" /\ Len(o.errors) = 1
    THEN [kind |-> "raise", errors |-> o.errors]
    ELSE o

\* one orchestrator from the end of the awaited attempt to its next await
TwinAfter(rec, o) ==
    LET s == ExecuteStepEnd(rec.steps[rec.it], o)
    IN  IF ~rec.in_retry
        THEN LET c == check_step(s, max_retry_count, rec.total_failures,
                                 rec.consecutive_failures)
             IN  [ConcApply(rec, s, c.result) EXCEPT
                    !.total_failures = c.total_failures,
                    !.consecutive_failures = c.consecutive_failures]
        ELSE IF s.status = "complete"
        THEN ConcNext(rec, s, TRUE)
        ELSE ConcRetry(rec, s)

\* run(task_type) on both orchestrators
TwinRun(task_type) ==
    /\ \A r \in ConcRuns : conc[r].pc \in {"idle", "returned"}
    /\ conc' = [r \in ConcRuns |->
                  ConcStart([TwinIdle EXCEPT
                               !.steps = prepare_execution(
                                            create_task_plan(task_type))])]
    /\ UNCHANGED << total_failures, consecutive_failures, notConcVars >>

\* the awaited collaborators end: with o on the first orchestrator, and with
\* o or the swapped o on the second
TwinAgentDone(o, swap) ==
    /\ \A r \in ConcRuns : conc[r].pc = "await"
    /\ conc[1].in_retry /\ o.kind # "ok" =>
           JoinErrors(o.errors) = conc[1].steps[conc[1].it].error_message
    /\ conc' = [r \in ConcRuns |->
                  TwinAfter(conc[r], IF r = 2 /\ swap THEN Swapped(o) ELSE o)]
    /\ UNCHANGED << total_failures, consecutive_failures, notConcVars >>

\* the backoff sleeps are over
TwinWake ==
    /\ \A r \in ConcRuns : conc[r].pc = "sleep"
    /\ conc' = [r \in ConcRuns |->
                  [conc[r] EXCEPT !.steps[conc[r].it] = ExecuteStepBegin(@),
                                  !.pc = "await"]]
    /\ UNCHANGED << total_failures, consecutive_failures, notConcVars >>

InitTwin ==
    /\ EngineNotRun
    /\ max_retry_count \in {0, 1}
    /\ total_failures = 0
    /\ consecutive_failures = 0
    /\ code = << >>
    /\ market = NoMarket
    /\ NoManager
    /\ trace = << >>
    /\ stale_failures = FALSE
    /\ conc = [r \in ConcRuns |-> TwinIdle]

NextTwin ==
    \/ \E task_type \in TaskTypeValues : TwinRun(task_type)
    \/ \E o \in Outcomes, swap \in BOOLEAN : TwinAgentDone(o, swap)
    \/ TwinWake

SpecTwin == InitTwin /\ [][NextTwin]_vars

(***************************************************************************)
(* Properties of the engine, the monitor and the orchestrator              *)
(***************************************************************************)
Completed == {i \in DOMAIN steps : steps[i].status = "complete"}

\* C1: in every state of execute_plan each step's retry_count lies in
\* 0..max_retries and its collaborator has been invoked at most
\* 1 + max_retries times; within a run retry_count never decreases, and a step
\* that is complete is never attempted again.
C1_RetryBounded ==
    /\ [](\A i \in DOMAIN steps :
            /\ steps[i].retry_count \in 0..max_retry_count
            /\ calls[i] <= 1 + max_retry_count)
    /\ [][~Idle =>
            \A i \in DOMAIN steps :
                /\ steps'[i].retry_count >= steps[i].retry_count
                /\ steps[i].status = "complete" => calls'[i] = calls[i]]_vars

\* a step that used every retry and succeeded at the last one
C1_Witness ==
    \E i \in DOMAIN steps :
        /\ max_retry_count >= 2
        /\ steps[i].retry_count = max_retry_count
        /\ calls[i] = 1 + max_retry_count
        /\ steps[i].status = "complete"

StatusEdges ==
    { << "pending", "in_progress" >>, << "in_progress", "complete" >>,
      << "in_progress", "failed" >>, << "failed", "in_progress" >>,
      << "failed", "skipped" >> }

\* C2: within a run a step's status changes only along pending->in_progress,
\* in_progress->complete, in_progress->failed, failed->in_progress and
\* failed->skipped, and a step that is complete or skipped never changes again.
C2_Lifecycle ==
    [][~Idle =>
        \A i \in DOMAIN steps :
            /\ steps'[i].status # steps[i].status
                 => << steps[i].status, steps'[i].status >> \in StatusEdges
            /\ steps[i].status \in {"complete", "skipped"}
                 => steps'[i] = steps[i]]_vars

\* a complete step and a skipped step behind a step that is being retried
C2_Witness ==
    \E i, j, k \in DOMAIN steps :
        /\ steps[i].status = "complete"
        /\ steps[j].status = "skipped"
        /\ i < k /\ j < k
        /\ steps[k].status = "in_progress"
        /\ steps[k].retry_count > 0

\* C3: for a final state with at least one step, validate_final_state returns
\* is_ok with action continue exactly when twice the number of complete steps
\* is at least the number of steps, and otherwise not is_ok with action replan
\* and requires_replanning; only complete steps count.
C3_Threshold ==
    pc = "returned" /\ Len(steps) >= 1 =>
        LET notCompleted ==
                {i \in DOMAIN steps :
                    steps[i].status \in {"skipped", "failed", "pending",
                                         "in_progress"}}
            completed == Len(steps) - Cardinality(notCompleted)
        IN  IF 2 * completed >= Len(steps)
            THEN /\ final_check.is_ok
                 /\ final_check.action = "continue"
            ELSE /\ ~final_check.is_ok
                 /\ final_check.action = "replan"
                 /\ final_check.requires_replanning

\* a run of four steps of which exactly two completed and one was skipped
C3_Witness ==
    /\ pc = "returned"
    /\ Len(steps) = 4
    /\ Cardinality(Completed) = 2
    /\ \E i \in DOMAIN steps : steps[i].status = "skipped"
    /\ final_check.is_ok

\* C4: a plan with no step is a no-op success: no collaborator is invoked,
\* has_error is false, is_complete is true, validate_final_state returns is_ok
\* and the run reports success.
C4_EmptyPlanSucceeds ==
    pc = "returned" /\ Len(steps) = 0 =>
        /\ calls = << >>
        /\ ~has_error
        /\ is_complete
        /\ final_check.is_ok
        /\ ret.success

\* C5: at most one step is in_progress; a step has left pending only when
\* every earlier step is complete, failed or skipped; and once a step has left
\* pending no earlier step changes any more (its retries are all over).
C5_Sequential ==
    /\ [](/\ Cardinality({i \in DOMAIN steps :
                            steps[i].status = "in_progress"}) <= 1
          /\ \A i, j \in DOMAIN steps :
                i < j /\ steps[j].status # "pending"
                  => steps[i].status \in {"complete", "failed", "skipped"})
    /\ [][~Idle =>
            \A i, j \in DOMAIN steps :
                i < j /\ steps'[j].status # "pending" => steps'[i] = steps[i]]_vars

\* the second step runs after the first used all its retries and stayed failed
C5_Witness ==
    /\ Len(steps) >= 2
    /\ max_retry_count >= 1
    /\ steps[1].status = "failed"
    /\ steps[1].retry_count = max_retry_count
    /\ steps[2].status = "in_progress"

\* C6: when the Monitor returns replan, has_error is set and the engine
\* stops at once: the step that triggered it stays failed, every later step
\* is still pending with retry_count 0 and was never invoked, and from then on
\* no collaborator is invoked and no step changes until run() has returned.
C6_ReplanStops ==
    /\ [](check_result.action = "replan" =>
            /\ has_error
            /\ pc \in {"loop", "returned"}
            /\ steps[it].status = "failed"
            /\ \A j \in DOMAIN steps :
                  j > it => /\ steps[j].status = "pending"
                            /\ steps[j].retry_count = 0
                            /\ calls[j] = 0)
    /\ [][check_result.action = "replan" /\ ~Idle =>
            calls' = calls /\ steps' = steps]_vars

\* a run that returned after a replan at a step that is neither first nor last
C6_Witness ==
    /\ pc = "returned"
    /\ check_result.action = "replan"
    /\ 1 < it /\ it < Len(steps)
    /\ is_complete

\* C7: run() always returns a result object and never raises, whatever the
\* task type given.
C7_RunNeverRaises ==
    /\ pc # "raised"
    /\ pc = "returned" => ret.present

\* C8: a run stopped by replan before all steps were dispatched is reported
\* with success = false, whatever fraction of the steps completed; and a run
\* (with at least one step) is reported unsuccessful only for that reason or
\* for a completion rate below one half.
C8_ReplanIsFailure ==
    pc = "returned" =>
        /\ replanned /\ it < Len(steps) => ~ret.success
        /\ ~ret.success /\ Len(steps) > 0
             => replanned \/ 2 * Cardinality(Completed) < Len(steps)

\* the step under check failed its first attempt with a data marker and no
\* transient marker, below the retry cap and below the breaker's threshold
C14_Case ==
    /\ pc = "check"
    /\ step.status = "failed"
    /\ AnyIn(data_keywords, LowerMsg(step.error_message))
    /\ ~AnyIn(transient_keywords, LowerMsg(step.error_message))
    /\ step.retry_count < max_retry_count
    /\ consecutive_failures + 1 < 3

\* C14: such a step is skipped at once: its collaborator was invoked once (a
\* collaborator that is not registered, never), retry_count stays 0, the step
\* becomes skipped and stays so, has_error is not set by it, and the loop
\* moves to the next step.
C14_DataSkip ==
    /\ [][C14_Case =>
            /\ steps'[it].status = "skipped"
            /\ steps'[it].retry_count = 0
            /\ calls[it] = (IF step.agent_name \in subagents THEN 1 ELSE 0)
            /\ calls' = calls
            /\ has_error' = has_error
            /\ check_result'.action = "skip"
            /\ pc' = "loop" /\ ~replanned' /\ it' = it + 1]_vars
    /\ [][~Idle =>
            \A i \in DOMAIN steps :
                steps[i].status = "skipped" =>
                    steps'[i] = steps[i] /\ calls'[i] = calls[i]]_vars

\* news_analyst failed with "empty result", was skipped after one call, and
\* the next step is running while has_error is still false
C14_Witness ==
    \E i \in DOMAIN steps :
        /\ max_retry_count >= 1
        /\ steps[i].agent_name = "news_analyst"
        /\ steps[i].status = "skipped"
        /\ steps[i].error_message = << "empty", "result" >>
        /\ steps[i].retry_count = 0
        /\ calls[i] = 1
        /\ ~has_error
        /\ i + 1 \in DOMAIN steps
        /\ steps[i + 1].status = "in_progress"

\* C16: every execute_plan call ends with is_complete set, whatever the
\* collaborators do and whether the loop was exhausted or left by replan; when
\* it has returned no step is in_progress, and pending steps exist only after
\* a replan and form a suffix of the step list.
C16_Terminates ==
    /\ (~Idle) ~> (pc = "returned" /\ is_complete)
    /\ [](pc = "returned" =>
            /\ is_complete
            /\ \A i \in DOMAIN steps : steps[i].status # "in_progress"
            /\ (\E i \in DOMAIN steps : steps[i].status = "pending") => replanned
            /\ \A i, j \in DOMAIN steps :
                  i < j /\ steps[i].status = "pending"
                    => steps[j].status = "pending")

\* a run that returned after a replan, with a step that exhausted its retries
\* and a pending suffix
C16_Witness ==
    /\ pc = "returned"
    /\ is_complete
    /\ replanned
    /\ max_retry_count >= 1
    /\ \E i \in DOMAIN steps :
          steps[i].status = "failed" /\ steps[i].retry_count = max_retry_count
    /\ steps[Len(steps)].status = "pending"

\* the first attempt of step i failed
C17_FirstFailed(i) ==
    steps[i].status \in {"failed", "skipped"} \/ steps[i].retry_count > 0

\* the last step of this run that check_step was called on (0: none yet)
C17_LastChecked == IF in_retry \/ replanned THEN it ELSE it - 1

\* the failures among the first n steps of this run
C17_OwnTotal(n) == Cardinality({i \in 1..n : C17_FirstFailed(i)})

\* the failures in a row that end at step n of this run
C17_OwnConsecutive(n) ==
    Cardinality({i \in 1..n :
                    \A j \in i..n : C17_FirstFailed(j)})

\* step i as it was when check_step was called on it
C17_AsChecked(i) ==
    IF C17_FirstFailed(i)
    THEN [steps[i] EXCEPT !.status = "failed", !.retry_count = 0]
    ELSE steps[i]

\* C17: run() resets the counters before the first step of the run is
\* checked: at every moment they count the failures of the current run only,
\* and the Monitor's last decision is the one check_step gives from the
\* current run's own failures, whatever earlier runs left behind.
C17_RunScoped ==
    /\ pc = "loop" /\ it = 1 /\ ~replanned
         => total_failures = 0 /\ consecutive_failures = 0
    /\ total_failures = C17_OwnTotal(C17_LastChecked)
    /\ consecutive_failures = C17_OwnConsecutive(C17_LastChecked)
    /\ C17_LastChecked >= 1 =>
         check_result =
            check_step(C17_AsChecked(C17_LastChecked), max_retry_count,
                       C17_OwnTotal(C17_LastChecked - 1),
                       C17_OwnConsecutive(C17_LastChecked - 1)).result

\* a run that follows a run which left two or more failures in a row: its
\* first step failed and got retry, as the first failure of the run
C17_Witness ==
    /\ stale_failures
    /\ max_retry_count >= 1
    /\ C17_LastChecked = 1
    /\ C17_FirstFailed(1)
    /\ consecutive_failures = 1
    /\ total_failures = 1
    /\ check_result.action = "retry"

\* C19: consecutive_failures is reset to 0 on any success: when a step has
\* reached complete, on its first attempt or on a retry, consecutive_failures
\* is 0 when the next step is checked.
C19_SuccessResets ==
    pc = "check" /\ it > 1 /\ steps[it - 1].status = "complete"
        => consecutive_failures = 0

C9_Expected(task_type) ==
    CASE task_type = "stock_analysis" ->
            << "technical_analyst", "fundamentals_analyst", "news_analyst",
               "sentiment_analyst" >>
      [] task_type = "holdings_tracking" ->
            << "holdings_hunter", "news_analyst" >>
      [] task_type = "stock_screening" ->
            << "alpha_hound", "technical_analyst", "fundamentals_analyst" >>

RECURSIVE C9_SumLen(_)
C9_SumLen(lists) ==
    IF lists = << >> THEN 0 ELSE Len(Head(lists)) + C9_SumLen(Tail(lists))

C9_Pos(order, name) == CHOOSE k \in DOMAIN order : order[k] = name

\* C9: for each of the three task types the plan has the fixed priority
\* order: non-empty, without duplicates, every name with a non-empty
\* assignment; the steps are numbered 0..n-1 in priority order, n being the
\* sum of the assignment lengths, and start pending with retry_count 0.
C9_PlanShape ==
    plan.task_type \in TaskTypeValues =>
        LET order == plan.priority_order
            asg == plan.subagent_assignments
        IN  /\ order = C9_Expected(plan.task_type)
            /\ order # << >>
            /\ \A a, b \in DOMAIN order : a # b => order[a] # order[b]
            /\ \A k \in DOMAIN order : DictGet(asg, order[k], << >>) # << >>
            /\ Len(steps) = C9_SumLen(asg.vals)
            /\ \A i \in DOMAIN steps :
                  /\ steps[i].step_id = i - 1
                  /\ \E k \in DOMAIN order : steps[i].agent_name = order[k]
            /\ \A i, j \in DOMAIN steps :
                  i < j => C9_Pos(order, steps[i].agent_name)
                             <= C9_Pos(order, steps[j].agent_name)
            /\ \A k \in DOMAIN order :
                  Cardinality({i \in DOMAIN steps :
                                  steps[i].agent_name = order[k]})
                    = Len(DictGet(asg, order[k], << >>))
            /\ pc = "loop" /\ it = 1 /\ ~replanned =>
                  \A i \in DOMAIN steps :
                      steps[i].status = "pending" /\ steps[i].retry_count = 0

\* the screening plan right after it was flattened
C9_Witness ==
    /\ pc = "loop" /\ it = 1 /\ ~replanned
    /\ plan.task_type = "stock_screening"
    /\ Len(steps) = 3
    /\ steps[3].agent_name = "fundamentals_analyst"

(***************************************************************************)
(* Properties of detect_market_type                                        *)
(***************************************************************************)
\* the code carries the suffix, letter case apart
C10_Carries(suffix) == Contains(Upper(code), suffix)

C10_AllIn(chars) == code # << >> /\ \A i \in DOMAIN code : code[i] \in chars

\* C10: the rules apply in order, the first match deciding: a code carrying
\* .SS or .SZ is a_share; else a code carrying .HK is hk_stock; else an
\* all-digit code of length 6 is a_share, an all-digit code of length 5 is
\* hk_stock and an all-letter code is us_stock.
C10_RuleOrder ==
    market # NoMarket =>
        LET ss == C10_Carries(<< ".", "S", "S" >>) \/ C10_Carries(<< ".", "S", "Z" >>)
            hk == C10_Carries(<< ".", "H", "K" >>)
        IN  /\ ss => market = "a_share"
            /\ ~ss /\ hk => market = "hk_stock"
            /\ ~ss /\ ~hk /\ C10_AllIn(Digits) /\ Len(code) = 6
                 => market = "a_share"
            /\ ~ss /\ ~hk /\ C10_AllIn(Digits) /\ Len(code) = 5
                 => market = "hk_stock"
            /\ ~ss /\ ~hk /\ C10_AllIn(UpperLetters \cup LowerLetters)
                 => market = "us_stock"
            /\ code = << "6", "0", "0", "5", "1", "9" >> => market = "a_share"
            /\ code = << "6", "0", "0", "5", "1", "9", ".", "S", "S" >>
                 => market = "a_share"
            /\ code = << "0", "0", "7", "0", "0" >> => market = "hk_stock"
            /\ code = << "A", "A", "P", "L" >> => market = "us_stock"

\* a code of six digits with the suffix .SZ was classified
C10_Witness ==
    /\ code = << "6", "6", "6", "6", "6", "6", ".", "S", "Z" >>
    /\ market = "a_share"

(***************************************************************************)
(* Properties of DataFetcherManager.get_daily_data                         *)
(***************************************************************************)
C11_Names(fs) == [i \in DOMAIN fs |-> fs[i].name]

\* C11: the candidates stand in ascending priority and are attempted in that
\* order, each at most once; the call returns as soon as a fetcher yields a
\* non-empty table, with that table and that fetcher's name, and attempts no
\* fetcher after it; with the default fetchers and an a_share code the order
\* is Akshare, Efinance, Yfinance, and Yfinance is the source when the first
\* two raise and it succeeds.
C11_FirstSuccess ==
    /\ [](fetch_pc # "idle" =>
            /\ \A i, j \in DOMAIN suitable_fetchers :
                  i < j => suitable_fetchers[i].priority
                             < suitable_fetchers[j].priority
            /\ Len(attempts) <= Len(suitable_fetchers)
            /\ \A k \in DOMAIN attempts :
                  attempts[k].name = suitable_fetchers[k].name
            /\ \A k \in DOMAIN attempts :
                  attempts[k].kind = "table"
                    => k = Len(attempts) /\ fetch_pc = "returned"
            /\ fetch_pc = "returned" =>
                  /\ attempts # << >>
                  /\ attempts[Len(attempts)].kind = "table"
                  /\ fetched.kind = "return"
                  /\ fetched.name = attempts[Len(attempts)].name
                  /\ fetched.df = fetched.name
            /\ market = "a_share" /\ Len(fetchers) = 3 =>
                  C11_Names(suitable_fetchers)
                    = << "AkshareFetcher", "EfinanceFetcher", "YfinanceFetcher" >>
            /\ attempts = << [name |-> "AkshareFetcher", kind |-> "raise"],
                             [name |-> "EfinanceFetcher", kind |-> "raise"],
                             [name |-> "YfinanceFetcher", kind |-> "table"] >>
                  => fetched.name = "YfinanceFetcher")
    /\ [][fetch_pc = "returned" => attempts' = attempts]_vars

\* the default fetchers, an a_share code: Akshare and Efinance raised and
\* Yfinance gave the table
C11_Witness ==
    /\ code = << "6", "0", "0", "5", "1", "9" >>
    /\ C11_Names(fetchers)
         = << "AkshareFetcher", "EfinanceFetcher", "YfinanceFetcher" >>
    /\ fetch_pc = "returned"
    /\ C11_Names(attempts)
         = << "AkshareFetcher", "EfinanceFetcher", "YfinanceFetcher" >>
    /\ attempts[1].kind = "raise" /\ attempts[2].kind = "raise"
    /\ fetched.name = "YfinanceFetcher"

\* the markets each fetcher class declares
C27_Supports(name, market_type) ==
    CASE name = "AkshareFetcher" -> market_type = "a_share"
      [] name = "EfinanceFetcher" -> market_type = "a_share"
      [] name = "YfinanceFetcher"
           -> market_type \in {"a_share", "us_stock", "hk_stock"}
      [] OTHER -> FALSE

\* the positions of the registered fetchers that support the detected market
C27_Supporting ==
    { i \in DOMAIN fetchers : C27_Supports(fetchers[i].name, market) }

\* C27: the candidates of a get_daily_data call are exactly the registered
\* fetchers that support the detected market, in ascending priority, and a
\* fetcher that does not support it is never attempted (a us_stock or
\* hk_stock code with the default fetchers is tried on YfinanceFetcher
\* only); when no registered fetcher supports the market (as with unknown)
\* the candidates are all the registered fetchers in priority order, and
\* all of them are attempted before the call fails; the call leaves the
\* list of registered fetchers as it was.
C27_Candidates ==
    /\ [](fetch_pc # "idle" =>
            /\ IF C27_Supporting = {}
               THEN suitable_fetchers = fetchers
               ELSE /\ Len(suitable_fetchers) = Cardinality(C27_Supporting)
                    /\ { suitable_fetchers[k] : k \in DOMAIN suitable_fetchers }
                         = { fetchers[i] : i \in C27_Supporting }
            /\ \A i, j \in DOMAIN suitable_fetchers :
                  i < j => suitable_fetchers[i].priority
                             < suitable_fetchers[j].priority
            /\ \A k \in DOMAIN attempts :
                  \/ C27_Supports(attempts[k].name, market)
                  \/ C27_Supporting = {}
            /\ market \in {"us_stock", "hk_stock"} /\ Len(fetchers) = 3 =>
                  /\ C11_Names(suitable_fetchers) = << "YfinanceFetcher" >>
                  /\ \A k \in DOMAIN attempts :
                        attempts[k].name = "YfinanceFetcher"
            /\ fetch_pc = "raised" =>
                  C11_Names(attempts) = C11_Names(suitable_fetchers))
    /\ [][fetchers' = fetchers]_vars

\* a code of unknown market with the default fetchers: none supports it, and
\* all three were attempted in priority order before the call failed
C27_Witness ==
    /\ code = << "-" >>
    /\ market = "unknown"
    /\ fetch_pc = "raised"
    /\ C27_Supporting = {}
    /\ C11_Names(fetchers)
         = << "AkshareFetcher", "EfinanceFetcher", "YfinanceFetcher" >>
    /\ C11_Names(attempts)
         = << "AkshareFetcher", "EfinanceFetcher", "YfinanceFetcher" >>

\* a us_stock code with the default fetchers: YfinanceFetcher alone was
\* attempted
C27_OnlyYfinance ==
    /\ code = << "A", "A", "P", "L" >>
    /\ market = "us_stock"
    /\ Len(fetchers) = 3
    /\ fetch_pc = "raised"
    /\ C11_Names(attempts) = << "YfinanceFetcher" >>

\* the code as detect_market_type reads it: without the blanks around it
C28_Code == Strip(code)

C28_AllIn(chars) ==
    C28_Code # << >> /\ \A i \in DOMAIN C28_Code : C28_Code[i] \in chars

\* C28: a code that matches none of the rules is unknown: without .SS, .SZ
\* or .HK, not all digits of length 5 or 6, and not all letters (so a code
\* mixing letters and digits, a code with a hyphen or a dot between letters,
\* an all-digit code of another length), it is never us_stock.
C28_UnknownOtherwise ==
    market # NoMarket =>
        LET ss == C10_Carries(<< ".", "S", "S" >>) \/ C10_Carries(<< ".", "S", "Z" >>)
            hk == C10_Carries(<< ".", "H", "K" >>)
        IN  /\ ~ss
            /\ ~hk
            /\ ~(C28_AllIn(Digits) /\ Len(C28_Code) \in {5, 6})
            /\ ~C28_AllIn(UpperLetters \cup LowerLetters)
            => market = "unknown"

\* C12: when no candidate yields a non-empty table the call raises one
\* aggregated failure whose error list has one entry for every fetcher that
\* was attempted, in attempt order, whether the fetcher raised or returned an
\* empty table.
C12_OneErrorPerAttempt ==
    fetch_pc = "raised" =>
        /\ fetched.kind = "raise"
        /\ fetched.errors = C11_Names(attempts)

(***************************************************************************)
(* Properties of check_step                                                *)
(***************************************************************************)
C13_Step(k) ==
    CheckedStep("technical_analyst", "failed", k, << "connection", "timeout" >>)

\* the first n recorded calls are those of the scenario, the first of them
\* made with the counters reset
C13_Scenario(n) ==
    /\ Len(trace) >= n
    /\ trace[1].total_failures = 1
    /\ \A k \in 1..n : trace[k].step = C13_Step(k)

\* C13: from reset counters and with max_retries = 3, three successive
\* check_step calls on a failed technical_analyst step with message
\* "connection timeout" and retry_count 1, 2, 3 return retry, retry and then
\* replan with requires_replanning; none returns skip.
C13_RetryRetryReplan ==
    max_retry_count = 3 /\ max_consecutive_failures = 3 =>
        /\ \A n \in 1..2 :
              C13_Scenario(n) =>
                  /\ trace[n].result.action = "retry"
                  /\ trace[n].result.retry_recommended
                  /\ ~trace[n].result.requires_replanning
        /\ C13_Scenario(3) =>
              /\ trace[3].result.action = "replan"
              /\ trace[3].result.requires_replanning
              /\ ~trace[3].result.is_ok

\* the three calls of the scenario were made
C13_Witness ==
    /\ max_retry_count = 3
    /\ C13_Scenario(3)
    /\ trace[3].total_failures = 3
    /\ check_result.action = "replan"

\* C15: a check of a failed step with retry_count < max_retries that brings
\* consecutive_failures to max_consecutive_failures or more returns replan
\* with requires_replanning, whatever the message and the agents; with fewer
\* consecutive failures the decision is the one of the error classification.
C15_CircuitBreaker ==
    \A n \in DOMAIN trace :
        LET s == trace[n].step
        IN  s.status = "failed" /\ s.retry_count < max_retry_count =>
                IF trace[n].consecutive_failures >= 3
                THEN /\ ~trace[n].result.is_ok
                     /\ trace[n].result.action = "replan"
                     /\ trace[n].result.requires_replanning
                     /\ ~trace[n].result.max_retries_exceeded
                ELSE trace[n].result = _analyze_failure(s)

\* three failures in a row from two agents, none at its retry cap, the third
\* with a data-unavailable message
C15_Witness ==
    /\ Len(trace) = 3
    /\ \A n \in 1..3 : /\ trace[n].step.status = "failed"
                       /\ trace[n].step.retry_count < max_retry_count
                       /\ trace[n].consecutive_failures = n
    /\ trace[1].step.agent_name # trace[3].step.agent_name
    /\ trace[1].result.action = "retry"
    /\ trace[2].result.action = "skip"
    /\ trace[3].step.error_message = << "empty", "result" >>
    /\ trace[3].result.action = "replan"

\* C20: for a failed step with retry_count >= max_retries the result is
\* replan with requires_replanning when the agent is alpha_hound,
\* holdings_hunter or technical_analyst, and skip with max_retries_exceeded
\* for every other agent, whatever consecutive_failures and the message are.
C20_CapFirst ==
    \A n \in DOMAIN trace :
        LET s == trace[n].step
        IN  s.status = "failed" /\ s.retry_count >= max_retry_count =>
                IF s.agent_name
                     \in {"alpha_hound", "holdings_hunter", "technical_analyst"}
                THEN /\ ~trace[n].result.is_ok
                     /\ trace[n].result.action = "replan"
                     /\ trace[n].result.requires_replanning
                ELSE /\ ~trace[n].result.is_ok
                     /\ trace[n].result.action = "skip"
                     /\ trace[n].result.max_retries_exceeded
                     /\ ~trace[n].result.requires_replanning

\* a non-critical step at its retry cap is skipped although the breaker's
\* threshold is passed and its message is an auth message
C20_Witness ==
    /\ Len(trace) = 1
    /\ trace[1].step.agent_name = "news_analyst"
    /\ trace[1].step.retry_count >= max_retry_count
    /\ trace[1].step.error_message = << "Unauthorized" >>
    /\ trace[1].consecutive_failures > max_consecutive_failures
    /\ trace[1].result.action = "skip"

\* _retry_step gives up on the step at position it
C23_GivesUp ==
    /\ in_retry
    /\ ~in_retry'
    /\ it \in DOMAIN steps'
    /\ steps'[it].status = "failed"

\* C23: a step that fails its first attempt and every retry the Monitor
\* granted ends failed with retry_count = max_retry_count and sets has_error;
\* the run goes on with the next step. Every failed step the loop has left
\* behind has used all its retries, and a run returns with a step not yet
\* dispatched only after a replan decision.
C23_ExhaustedGoesOn ==
    /\ [][C23_GivesUp =>
            /\ steps'[it].retry_count = max_retry_count
            /\ calls'[it] <= max_retry_count + 1
            /\ has_error'
            /\ ~replanned'
            /\ it' = it + 1
            /\ pc' = "loop"]_vars
    /\ [](\A i \in DOMAIN steps :
            i < it /\ steps[i].status = "failed" =>
                steps[i].retry_count = max_retry_count /\ has_error)
    /\ [](pc = "returned" /\ (\E i \in DOMAIN steps : steps[i].status = "pending")
            => replanned /\ check_result.action = "replan")

\* the first step used up its retries and the last step of the plan still
\* ran to completion
C23_Witness ==
    /\ pc = "returned"
    /\ ~replanned
    /\ max_retry_count >= 1
    /\ Len(steps) >= 2
    /\ steps[1].status = "failed"
    /\ steps[1].retry_count = max_retry_count
    /\ calls[1] = max_retry_count + 1
    /\ steps[Len(steps)].status = "complete"
    /\ has_error

\* the step at position i names a collaborator that is not registered
C24_Unregistered(i) ==
    i \in DOMAIN steps /\ steps[i].agent_name \notin subagents

\* C24: a step whose collaborator is not registered fails at once and is
\* never retried: its attempt ends failed with no collaborator invoked, the
\* Monitor's decision for it is skip or replan and never retry, whatever the
\* agent and the counters are, and its retry_count stays 0.
C24_NeverRetried ==
    /\ [](\A i \in DOMAIN steps :
            C24_Unregistered(i) =>
                /\ calls[i] = 0
                /\ steps[i].retry_count = 0
                /\ steps[i].status \in {"pending", "in_progress", "failed", "skipped"})
    /\ [][pc = "await" /\ C24_Unregistered(it) =>
            /\ steps'[it].status = "failed"
            /\ calls' = calls
            /\ pc' = "check"]_vars
    /\ [][pc = "check" /\ C24_Unregistered(it) =>
            /\ ~check_result'.is_ok
            /\ check_result'.action \in {"skip", "replan"}
            /\ ~check_result'.retry_recommended
            /\ pc' = "loop"]_vars

\* the unregistered sentiment_analyst, below the retry cap and the breaker,
\* was skipped without a call and without a retry
C24_Witness ==
    \E i \in DOMAIN steps :
        /\ C24_Unregistered(i)
        /\ steps[i].agent_name = "sentiment_analyst"
        /\ max_retry_count >= 1
        /\ i < it
        /\ steps[i].status = "skipped"
        /\ steps[i].retry_count = 0
        /\ calls[i] = 0

\* what the claim compares of a step
C25_StepSeen(s) ==
    [ agent_name |-> s.agent_name, status |-> s.status,
      retry_count |-> s.retry_count, error_message |-> s.error_message ]

\* what the claim compares of an orchestrator: each step's status,
\* retry_count and message (so, the set of steps dispatched), the Monitor's
\* decisions and counters, has_error, and where the run is
C25_Seen(rec) ==
    [ pc |-> rec.pc, it |-> rec.it, in_retry |-> rec.in_retry,
      has_error |-> rec.has_error, replanned |-> rec.replanned,
      total_failures |-> rec.total_failures,
      consecutive_failures |-> rec.consecutive_failures,
      steps |-> [i \in DOMAIN rec.steps |-> C25_StepSeen(rec.steps[i])],
      decisions |-> [i \in DOMAIN rec.decisions |->
                       [ step |-> C25_StepSeen(rec.decisions[i].step),
                         result |-> rec.decisions[i].result ]] ]

\* C25: an exception raised by a collaborator with message m is treated as
\* a returned failure whose single error is m: two orchestrators that differ
\* only in which of the two their collaborators did agree at every point on
\* each step's status and retry_count, on the Monitor's decisions and
\* counters, on has_error and on the steps dispatched.
C25_RaiseAsFailure == C25_Seen(conc[1]) = C25_Seen(conc[2])

\* both returned after a step that failed by exception on one and by a
\* returned failure on the other (only the first has its completed_at), and
\* a later step was dispatched on both
C25_Witness ==
    /\ conc[1].pc = "returned"
    /\ conc[2].pc = "returned"
    /\ Len(conc[1].steps) >= 2
    /\ conc[1].steps[1].status = "failed"
    /\ conc[1].steps[1].retry_count >= 1
    /\ conc[1].steps[1].completed_at # 0
    /\ conc[2].steps[1].completed_at = 0
    /\ conc[2].steps[1].status = "failed"
    /\ conc[1].steps[2].status = "complete"
    /\ conc[2].steps[2].status = "complete"

\* C26: every attempt that ends records completed_at: a step whose status
\* is complete or failed has completed_at set, and set by its latest attempt
\* (the one that set started_at).
C26_CompletedAtRecorded ==
    \A i \in DOMAIN steps :
        steps[i].status \in {"complete", "failed"} =>
            /\ steps[i].completed_at # 0
            /\ steps[i].completed_at = steps[i].started_at

C29_SomeFailed == \E i \in DOMAIN steps : steps[i].status = "failed"

\* C29: has_error never goes back to false within a run (only the next
\* run() starts with it false); it is set only at a step whose status is
\* failed then, never for a complete, skipped or pending step; and when the
\* run has returned it is true exactly when some step's final status is
\* failed.
C29_HasErrorIffFailed ==
    /\ [][has_error /\ ~has_error' => Idle /\ pc' = "loop"]_vars
    /\ [][~has_error /\ has_error' =>
            /\ it \in DOMAIN steps'
            /\ steps'[it].status = "failed"]_vars
    /\ [](pc = "returned" => (has_error <=> C29_SomeFailed))

\* a returned run with a skipped, a complete and a failed step, and has_error
C29_Witness ==
    /\ pc = "returned"
    /\ has_error
    /\ C29_SomeFailed
    /\ \E i \in DOMAIN steps : steps[i].status = "skipped"
    /\ \E i \in DOMAIN steps : steps[i].status = "complete"

\* a returned run with a skipped step and no failed one: has_error is false
C29_SkippedOnly ==
    /\ pc = "returned"
    /\ ~has_error
    /\ \E i \in DOMAIN steps : steps[i].status = "skipped"

\* the steps that have been dispatched
C30_Dispatched == { i \in DOMAIN steps : steps[i].status # "pending" }

\* C30: the Monitor is consulted once per dispatched step, after the step's
\* first attempt and never after a retry: every check_step call sees
\* retry_count = 0, while a step is retried the Monitor's counters and last
\* result stay as they are, and total_failures never exceeds the number of
\* dispatched steps. So with max_retry_count >= 1 no result ever has
\* max_retries_exceeded: a step that used a retry is never skipped and never
\* the cause of a replan, critical agent or not.
C30_CheckedOncePerStep ==
    /\ [](pc = "check" => ~in_retry /\ step.retry_count = 0 /\ calls[it] <= 1)
    /\ [][pc # "check" /\ pc' = "check" => pc = "await" /\ ~in_retry]_vars
    /\ [][pc = "check" =>
            /\ pc' # "check"
            /\ in_retry' \/ replanned' \/ it' = it + 1]_vars
    /\ [][in_retry =>
            UNCHANGED << total_failures, consecutive_failures, check_result >>]_vars
    /\ [](total_failures <= Cardinality(C30_Dispatched))
    /\ [](max_retry_count >= 1 => ~check_result.max_retries_exceeded)
    /\ [](\A i \in DOMAIN steps :
            steps[i].retry_count >= 1 => steps[i].status # "skipped")
    /\ [](replanned => steps[it].retry_count = 0)

\* the critical technical_analyst failed its first attempt and all its
\* retries: one check for max_retry_count + 1 attempts, the step is failed,
\* not skipped, and the run went on without replan
C30_Witness ==
    /\ pc = "returned"
    /\ max_retry_count >= 1
    /\ steps # << >>
    /\ steps[1].agent_name = "technical_analyst"
    /\ steps[1].status = "failed"
    /\ steps[1].retry_count = max_retry_count
    /\ calls[1] = max_retry_count + 1
    /\ total_failures = 1
    /\ ~replanned
    /\ \A i \in DOMAIN steps : steps[i].status # "pending"

\* what one check_step call, the last one recorded in trace', did
C22_Call ==
    LET e == trace'[Len(trace')]
    IN  /\ IF e.step.status = "complete"
           THEN /\ consecutive_failures' = 0
                /\ total_failures' = total_failures
                /\ check_result'.is_ok
                /\ check_result'.action = "continue"
           ELSE /\ consecutive_failures' = consecutive_failures + 1
                /\ total_failures' = total_failures + 1
                /\ ~check_result'.is_ok
                /\ check_result'.action # "continue"
        /\ check_result' = e.result
        /\ UNCHANGED << max_retry_count, subagents, pc, plan, steps,
                        current_step, it, in_retry, has_error, is_complete,
                        final_check, ret, calls, replanned >>

\* C22: a check_step call changes the counters in one of two ways and
\* nothing else of the execution state: for a complete step
\* consecutive_failures becomes 0, total_failures stays, and the result is
\* ok with action continue; for a step of any other status both counters
\* grow by one and the result is not ok. In every state
\* total_failures >= consecutive_failures >= 0.
C22_CounterFrame ==
    /\ [][Len(trace') = Len(trace) + 1 => C22_Call]_vars
    /\ [](total_failures >= consecutive_failures /\ consecutive_failures >= 0)

\* a complete step checked after a failed one: the run of failures is over,
\* the total is kept
C22_Witness ==
    /\ Len(trace) = 2
    /\ trace[1].step.status = "failed"
    /\ trace[2].step.status = "complete"
    /\ consecutive_failures = 0
    /\ total_failures >= 1
    /\ check_result.action = "continue"

\* the failure classes whose markers a message of the model carries
C21_Markers(m) ==
    CASE m = << "connection", "timeout" >> -> {"transient"}
      [] m = << "empty", "result" >> -> {"data"}
      [] m = << "Unauthorized" >> -> {"auth"}
      [] m = << "Timeout", "EMPTY", "Unauthorized" >>
           -> {"transient", "data", "auth"}
      [] m = << "rate", "limit", "forbidden" >> -> {"transient", "auth"}
      [] m = << "EMPTY", "Unauthorized" >> -> {"data", "auth"}
      [] m = << "not", "found", "401" >> -> {"data", "auth"}
      [] OTHER -> {}

C21_Expected(m) ==
    IF "transient" \in C21_Markers(m) THEN "retry"
    ELSE IF "data" \in C21_Markers(m) THEN "skip"
    ELSE IF "auth" \in C21_Markers(m) THEN "replan"
    ELSE "retry"

\* C21: when neither the retry cap nor the circuit breaker applies, a failed
\* step's message is classified in the order transient, data-unavailable,
\* auth: a transient marker gives retry even beside data or auth markers, a
\* data marker without a transient one gives skip even beside an auth marker,
\* an auth marker alone gives replan, and a message without any marker (the
\* empty message included) gives retry; letter case does not matter.
C21_ClassOrder ==
    \A n \in DOMAIN trace :
        LET s == trace[n].step
            r == trace[n].result
        IN  /\ s.status = "failed"
            /\ s.retry_count < max_retry_count
            /\ trace[n].consecutive_failures < max_consecutive_failures
            => /\ ~r.is_ok
               /\ r.action = C21_Expected(s.error_message)
               /\ r.retry_recommended = (r.action = "retry")
               /\ r.requires_replanning = (r.action = "replan")
               /\ ~r.max_retries_exceeded

\* a message with the markers of all three classes is answered by retry
C21_Witness ==
    /\ Len(trace) = 1
    /\ trace[1].step.status = "failed"
    /\ trace[1].step.error_message = << "Timeout", "EMPTY", "Unauthorized" >>
    /\ trace[1].step.retry_count < max_retry_count
    /\ trace[1].consecutive_failures < max_consecutive_failures
    /\ trace[1].result.action = "retry"

(***************************************************************************)
(* Properties of concurrent runs                                           *)
(***************************************************************************)
\* the failures in a row among the first n steps that call r had checked
C18_OwnConsecutive(r, n) ==
    Cardinality({i \in 1..n :
                    \A j \in i..n :
                        conc[r].decisions[j].step.status # "complete"})

C18_OwnTotal(r, n) ==
    Cardinality({i \in 1..n : conc[r].decisions[i].step.status # "complete"})

\* the decision call r gets for its i-th checked step when it counts its own
\* failures only
C18_Alone(r, i) ==
    check_step(conc[r].decisions[i].step, max_retry_count,
               C18_OwnTotal(r, i - 1), C18_OwnConsecutive(r, i - 1)).result

\* call r got the decision of a run executed alone for its first n checks
C18_AsAlone(r, n) ==
    \A i \in 1..n : conc[r].decisions[i].result = C18_Alone(r, i)

\* C18: a run() call that is the only one on the orchestrator gets, for every
\* step, the decision computed from its own failures; with a second call in
\* flight on the same orchestrator this fails (C18_Witness): a failure of the
\* other call trips this call's circuit breaker, and the other call's reset
\* hides this call's failures.
C18_AloneIsRunScoped ==
    \A r \in ConcRuns :
        (\A q \in ConcRuns \ {r} : conc[q].pc = "idle")
            => C18_AsAlone(r, Len(conc[r].decisions))

\* call r, whose earlier decisions were those of a run alone, got replan from
\* the breaker where alone, with fewer than 3 failures of its own, it gets retry
C18_Tripped(r) ==
    LET n == Len(conc[r].decisions)
    IN  /\ n >= 1
        /\ C18_AsAlone(r, n - 1)
        /\ conc[r].decisions[n].result.action = "replan"
        /\ C18_Alone(r, n).action = "retry"
        /\ C18_OwnConsecutive(r, n) < 3

\* call r, whose earlier decisions were those of a run alone, got retry where
\* alone it gets replan from the breaker: the other call's reset or success
\* hid its failures
C18_Hidden(r) ==
    LET n == Len(conc[r].decisions)
    IN  /\ n >= 1
        /\ C18_AsAlone(r, n - 1)
        /\ conc[r].decisions[n].result.action = "retry"
        /\ C18_Alone(r, n).action = "replan"
        /\ C18_OwnConsecutive(r, n) >= 3

\* both ways in one interleaving: one call's breaker tripped by the other's
\* failures, the other call's failures hidden by the first one's reset
C18_Witness ==
    \E r, q \in ConcRuns : r # q /\ C18_Tripped(r) /\ C18_Hidden(q)

=============================================================================
